---- MODULE Spec2Model ----
(***************************************************************************)
(* Model of package ju (akualab/ju): the multi-file reader `multi`, the    *)
(* gzip wrapper GZIPReader, JSONStreamer and the path resolution of        *)
(* FileStreamer.  The model follows the last version of ju.go              *)
(* (src/ju.go lines 268-585).                                              *)
(***************************************************************************)
EXTENDS Integers, Sequences, FiniteSets, TLC

\* ------------------------------------------------------------------ bounds
MaxFiles == 2      \* longest file list handed to a multi reader
MaxRecs == 1       \* most records held by one member file
MaxBuf == 2        \* largest buffer a caller hands to Read
MaxText == 4       \* most characters of a manifest file
MaxLines == 2      \* most paths written into a manifest
MaxVal == 3        \* largest value written by the round trip
MaxSeq == 2        \* most values written to one file
MaxK == 2          \* most files handed to the concurrent pipeline
MaxM == 2          \* most records in each file of the pipeline
ChanCap == 1       \* capacity of the pipeline's output channel

\* ------------------------------------------------------------------ state
VARIABLES
    disk,      \* the member files as they are on disk: <<[gz, hdr, nrec], ...>>
    mode,      \* "raw": the caller calls multi.Read itself; "json": through JSONStreamer
    m,         \* the multi struct: [files, idx, reader]
    h,         \* OS handle of the member file at each list position
    rpos,      \* bytes of the current member already produced by its reader
    rerr,      \* sticky error of the current gzip.Reader ("nil" when none)
    gzlog,     \* the last GZIPReader.Close: the closes attempted, in order, its error,
               \* and what the two closes answer (ein, egz)
    ret,       \* what the last call on the multi reader returned
    jret,      \* what the last JSONStreamer.Next returned
    rs,        \* the last path resolution: its input and what FileStreamer returned
    pre,       \* the multi struct as the last Read found it
    out,       \* every byte multi.Read has handed to its caller, in order
    dec,       \* the json.Decoder of the JSONStreamer: [buf, err]
    pc,        \* "idle", or "refill" while Next is inside Decode's read loop
    recs,      \* every record Next has returned, in order
    hist,      \* history: the environment failed, Close was called, the members whose reader
               \* reported EOF, a Read returned an error other than EOF
    pl         \* the run of the concurrent pipeline: path queue, workers, output channel

vars == <<disk, mode, m, h, rpos, rerr, gzlog, ret, jret, rs, pre, out, dec, pc, recs, hist, pl>>

Min(a, b) == IF a < b THEN a ELSE b

\* ------------------------------------------------------------ file contents
\* A record is written by WriteJSON as one JSON object followed by a newline
\* (json.Encoder.Encode).  The object is modelled by its opening and its
\* closing byte, so a read may split it.
RecId(i, j) == i * 10 + j

WriteJSON(r) == << [t |-> "{", r |-> r], [t |-> "}", r |-> r], [t |-> "nl", r |-> 0] >>

RECURSIVE FileBytes(_, _)
FileBytes(i, j) == IF j = 0 THEN <<>> ELSE FileBytes(i, j - 1) \o WriteJSON(RecId(i, j))

\* The decompressed bytes of the member file at list position i.
Content(d, i) == FileBytes(i, d[i].nrec)

RECURSIVE AllBytes(_, _)
AllBytes(d, i) == IF i = 0 THEN <<>> ELSE AllBytes(d, i - 1) \o Content(d, i)

RECURSIVE FileRecs(_, _)
FileRecs(i, j) == IF j = 0 THEN <<>> ELSE Append(FileRecs(i, j - 1), RecId(i, j))

RECURSIVE AllRecs(_, _)
AllRecs(d, i) == IF i = 0 THEN <<>> ELSE AllRecs(d, i - 1) \o FileRecs(i, d[i].nrec)

IsPrefix(s, t) == Len(s) <= Len(t) /\ SubSeq(t, 1, Len(s)) = s

\* A member file: plain or ".gz"; a ".gz" file has a good gzip header, is a
\* zero-length file ("empty") or does not start with a gzip header ("bad").
FileKinds ==
    { [gz |-> FALSE, hdr |-> "ok", nrec |-> n] : n \in 0..MaxRecs } \cup
    { [gz |-> TRUE, hdr |-> "ok", nrec |-> n] : n \in 0..MaxRecs } \cup
    { [gz |-> TRUE, hdr |-> "empty", nrec |-> 0], [gz |-> TRUE, hdr |-> "bad", nrec |-> 0] }

FileLists == UNION { [1..n -> FileKinds] : n \in 0..MaxFiles }

AllValid(d) == \A i \in 1..Len(d) : d[i].hdr = "ok"

NilReader == [k |-> "nil", f |-> 0]


\* ------------------------------------------------------------- environment
\* What the operating system and the gzip library answer during one call is a
\* record c:
\*   open : os.Open succeeds
\*   rd   : what the member reader's Read returns, [n, e]
\*   cin  : what closing the os.File returns
\*   cgz  : what gzip.Reader.Close returns
\* The bundle of everything a call on the multi reader can change.
Bundle == [m |-> m, h |-> h, rpos |-> rpos, rerr |-> rerr, gzlog |-> gzlog]

NoLog == [log |-> <<>>, err |-> "nil", ein |-> "nil", egz |-> "nil"]

\* What happened inside a call: whether it opened a file, the position f of
\* the member it read from (0: none), the member reader's error rde and the
\* close's error cle ("none" when there was no read, no close), and whether
\* the environment failed.
Ev(opened, f, rde, cle, fault) ==
    [opened |-> opened, f |-> f, rde |-> rde, cle |-> cle, fault |-> fault]

NoEv == Ev(FALSE, 0, "none", "none", FALSE)

\* What a call returns: the new bundle, (n, err), whether it panicked, the
\* bytes the member reader placed in the caller's buffer, and what happened.
Return(s, n, e, data, ev) ==
    [s |-> s, n |-> n, err |-> e, panic |-> FALSE, data |-> data, ev |-> ev]

Panic(s, ev) ==
    [s |-> s, n |-> 0, err |-> "panic", panic |-> TRUE, data |-> <<>>, ev |-> ev]

\* ------------------------------------------------------------- GZIPReader
\* gzip.NewReader reads the gzip header: a zero-length stream makes it return
\* io.EOF, any other stream without a header an error.
NewGZIPReaderErr(file) ==
    CASE file.hdr = "ok" -> "nil"
      [] file.hdr = "empty" -> "EOF"
      [] OTHER -> "EGZ"

\* GZIPReader.Close: [log, err], log being the closes attempted, in order.
\* ein is what inReader.Close returns, egz what gzipReader.Close returns.
GZIPReaderClose(ein, egz) ==
    IF ein # "nil"
    THEN [log |-> <<"inReader">>, err |-> ein]
    ELSE [log |-> <<"inReader", "gzipReader">>, err |-> egz]

\* os.File.Close on the handle at position f: an error when the handle is
\* already closed, otherwise what the environment answers.
FileCloseErr(s, f, c) == IF s.h[f] = "closed" THEN "ECLOSED" ELSE c.cin

\* A faulty variant of ReaderClose: the close is reported but not performed.
ReaderCloseSkipped(s, c) == [s |-> s, err |-> "nil", panic |-> FALSE]

\* m.reader.Close() through the io.ReadCloser interface: [s, err, panic].
\* A nil *GZIPReader stored in the interface makes g.inReader dereference nil.
ReaderClose(s, c) ==
    LET rd == s.m.reader
        f == rd.f
    IN  CASE rd.k = "file" ->
               [s |-> [s EXCEPT !.h[f] = "closed"],
                err |-> FileCloseErr(s, f, c), panic |-> FALSE]
          [] rd.k = "gz" ->
               LET ein == FileCloseErr(s, f, c)
                   g == GZIPReaderClose(ein, c.cgz)
               IN  [s |-> [s EXCEPT !.h[f] = "closed",
                                    !.gzlog = [log |-> g.log, err |-> g.err,
                                               ein |-> ein, egz |-> c.cgz]],
                    err |-> g.err, panic |-> FALSE]
          [] OTHER -> [s |-> s, err |-> "panic", panic |-> TRUE]

\* The answers the current member reader can give to Read(p), len(p) = p > 0.
\* os.File: data, or (0, EOF) at the end, or an error; an error once closed.
\* GZIPReader: its gzip.Reader keeps its error; at the end of the data it
\* answers (0, EOF) or hands out the last bytes together with EOF.
MemberReads(s, p) ==
    LET rd == s.m.reader
        left == Len(Content(disk, rd.f)) - s.rpos
        data == { [n |-> n, e |-> "nil"] : n \in 1..Min(p, left) }
    IN  CASE rd.k = "file" ->
               IF s.h[rd.f] = "closed" THEN { [n |-> 0, e |-> "ECLOSED"] }
               ELSE IF left = 0 THEN { [n |-> 0, e |-> "EOF"], [n |-> 0, e |-> "EIO"] }
               ELSE data \cup { [n |-> 0, e |-> "EIO"] }
          [] rd.k = "gz" ->
               IF s.rerr # "nil" THEN { [n |-> 0, e |-> s.rerr] }
               ELSE IF left = 0 THEN { [n |-> 0, e |-> "EOF"], [n |-> 0, e |-> "EIO"] }
               ELSE data \cup { [n |-> 0, e |-> "EIO"] }
                         \cup (IF left <= p THEN { [n |-> left, e |-> "EOF"] } ELSE {})
          [] OTHER -> {}

\* ------------------------------------------------------------------ multi
\* A faulty variant of ListEmpty: the empty list is not recognised.
ListEmptyNever(files) == FALSE

\* src/ju.go:450
ListEmpty(files) == Len(files) = 0

\* A faulty variant of MoreFiles: the comparison is off by one.
MoreFilesOffByOne(mm) == mm.idx + 1 < Len(mm.files)

\* src/ju.go:475
MoreFiles(mm) == mm.idx < Len(mm.files)

\* src/ju.go:453-467: no reader is open, open m.files[m.idx].
\* [r, done]: done when Read returns from inside this block.
OpenNext(s, c) ==
    IF s.m.idx >= Len(s.m.files)
    THEN [done |-> TRUE, r |-> Panic(s, NoEv)]   \* m.files[m.idx]: index out of range
    ELSE IF ~c.open
    THEN [done |-> TRUE, r |-> Return(s, 0, "EOPEN", <<>>, [NoEv EXCEPT !.fault = TRUE])]
    ELSE
        LET f == s.m.files[s.m.idx + 1]
            s1 == [s EXCEPT !.h[f] = "open", !.rpos = 0, !.rerr = "nil"]
            e == NewGZIPReaderErr(disk[f])
        IN  IF disk[f].gz /\ e # "nil"
            THEN \* m.reader holds the nil *GZIPReader; f is not closed; idx stays
                 [done |-> TRUE,
                  r |-> Return([s1 EXCEPT !.m.reader = [k |-> "nilgz", f |-> f]],
                               0, e, <<>>, Ev(TRUE, 0, "none", "none", TRUE))]
            ELSE [done |-> FALSE,
                  r |-> Return([s1 EXCEPT
                                   !.m.reader = [k |-> IF disk[f].gz THEN "gz" ELSE "file",
                                                 f |-> f],
                                   !.m.idx = s.m.idx + 1],
                               0, "nil", <<>>, Ev(TRUE, 0, "none", "none", FALSE))]

\* src/ju.go:468-500: read from m.reader and dispatch on the error.
ReadCurrent(s, c, opened) ==
    IF s.m.reader.k = "nilgz"
    THEN Panic(s, Ev(opened, 0, "none", "none", FALSE))   \* g.gzipReader on a nil g
    ELSE
        LET n == c.rd.n
            e == c.rd.e
            f == s.m.reader.f
            data == SubSeq(Content(disk, f), s.rpos + 1, s.rpos + n)
            s1 == [s EXCEPT !.rpos = s.rpos + n,
                            !.rerr = IF s.m.reader.k = "gz" THEN e ELSE "nil"]
            cl == ReaderClose(s1, c)
            ev == Ev(opened, f, e, cl.err, e \notin {"nil", "EOF"} \/ cl.err # "nil")
        IN  CASE e = "nil" -> Return(s1, n, "nil", data, Ev(opened, f, e, "none", FALSE))
              [] e = "EOF" /\ MoreFiles(s.m) ->
                    IF cl.err # "nil"
                    THEN Return(cl.s, n, cl.err, data, ev)
                    ELSE Return([cl.s EXCEPT !.m.reader = NilReader], n, "nil", data, ev)
              [] e = "EOF" ->
                    IF cl.err # "nil"
                    THEN Return(cl.s, 0, cl.err, data, ev)
                    ELSE Return([cl.s EXCEPT !.m.reader = NilReader], n, "EOF", data, ev)
              [] OTHER ->
                    IF cl.err # "nil"
                    THEN Return(cl.s, 0, cl.err, data, ev)
                    ELSE Return(cl.s, n, e, data, ev)

\* multi.Read(p), src/ju.go:449-501; c.rd is one of the answers the member
\* reader can give to a buffer of p bytes (ReadChoices below).
MultiRead(s, c) ==
    IF ListEmpty(s.m.files) THEN Return(s, 0, "EOF", <<>>, NoEv)
    ELSE IF s.m.reader.k = "nil"
    THEN LET o == OpenNext(s, c)
         IN  IF o.done THEN o.r ELSE ReadCurrent(o.r.s, c, TRUE)
    ELSE ReadCurrent(s, c, FALSE)

\* The environment's answers that matter to Read(p) in state s: whether the
\* open succeeds when a file is to be opened, what the member reader answers,
\* and what the closes answer when the answer makes Read close the reader.
NoFault == [open |-> TRUE, rd |-> [n |-> 0, e |-> "nil"], cin |-> "nil", cgz |-> "nil"]

CloseChoices(s) ==
    LET rd == s.m.reader
        ins == IF rd.k \in {"file", "gz"} /\ s.h[rd.f] # "closed"
               THEN {"nil", "ECLOSE"} ELSE {"nil"}
    IN  { [NoFault EXCEPT !.cin = ci, !.cgz = cg] :
            ci \in ins, cg \in IF rd.k = "gz" THEN {"nil", "EGZCLOSE"} ELSE {"nil"} }

ReadChoices(s, p) ==
    LET opens == ~ListEmpty(s.m.files) /\ s.m.reader.k = "nil" /\ s.m.idx < Len(s.m.files)
        o == OpenNext(s, NoFault)
        s1 == IF opens THEN o.r.s ELSE s
        reads == IF ListEmpty(s.m.files) \/ (opens /\ o.done) THEN {} ELSE MemberReads(s1, p)
    IN  (IF reads = {} THEN {NoFault} ELSE {})
        \cup (IF opens THEN {[NoFault EXCEPT !.open = FALSE]} ELSE {})
        \cup UNION { IF rd.e = "nil" THEN {[NoFault EXCEPT !.rd = rd]}
                     ELSE { [c EXCEPT !.rd = rd] : c \in CloseChoices(s1) } : rd \in reads }

\* A faulty variant of ClosedFiles: Close keeps the file list.
KeptFiles(files) == files

\* src/ju.go:505-506
ClosedFiles(files) == <<>>

\* multi.Close(), src/ju.go:504-514.
MultiClose(s, c) ==
    LET s1 == [s EXCEPT !.m.idx = 0, !.m.files = ClosedFiles(s.m.files)]
        cl == ReaderClose(s1, c)
    IN  IF s.m.reader.k = "nil" THEN Return(s1, 0, "nil", <<>>, NoEv)
        ELSE IF cl.panic THEN Panic(s1, NoEv)
        ELSE Return(cl.s, 0, cl.err, <<>>, Ev(FALSE, 0, "none", cl.err, cl.err # "nil"))

\* ----------------------------------------------------------- JSONStreamer
\* json.Decoder.readValue scanning dec.buf for one value: white space is
\* skipped, an object runs from its opening to its closing byte.
\* [st, rec, rest] with st "value", "need" (more bytes wanted) or "error".
RECURSIVE Scan(_)
Scan(buf) ==
    IF Len(buf) = 0 THEN [st |-> "need", rec |-> 0, rest |-> buf]
    ELSE IF buf[1].t = "nl" THEN
        LET sc == Scan(Tail(buf))
        IN  IF sc.st = "need" THEN [sc EXCEPT !.rest = buf] ELSE sc
    ELSE IF buf[1].t # "{" THEN [st |-> "error", rec |-> 0, rest |-> buf]
    ELSE IF Len(buf) = 1 THEN [st |-> "need", rec |-> 0, rest |-> buf]
    ELSE IF buf[2].t = "}" /\ buf[2].r = buf[1].r
         THEN [st |-> "value", rec |-> buf[1].r, rest |-> SubSeq(buf, 3, Len(buf))]
         ELSE [st |-> "error", rec |-> 0, rest |-> buf]

\* json's nonSpace(dec.buf)
NonSpace(buf) == \E i \in 1..Len(buf) : buf[i].t # "nl"

\* JSONStreamer.Next, src/ju.go:369-375: io.EOF becomes Done.
NextErr(e) == IF e = "EOF" THEN "Done" ELSE e

\* What readValue does with the error of the last refill once the buffer
\* holds no complete value: EOF inside a value is ErrUnexpectedEOF.
ReadValueErr(e, buf) == IF e = "EOF" /\ NonSpace(buf) THEN "EUNEXPECTEDEOF" ELSE e

\* -------------------------------------------------------- path resolution
\* A path is a sequence of characters: "/" separates its elements, "." is the
\* dot, every other character is alphanumeric (a word such as "x1" or "list"
\* stands for its letters).  A manifest's text also holds "LF" and "CR".
IsAlnum(ch) == ch \notin {".", "/", "LF", "CR"}

RECURSIVE LastOf(_, _, _)
LastOf(ch, path, i) ==
    IF i = 0 THEN 0 ELSE IF path[i] = ch THEN i ELSE LastOf(ch, path, i - 1)

\* filepath.Base, for a path that does not end in a separator
Base(path) == SubSeq(path, LastOf("/", path, Len(path)) + 1, Len(path))

\* filepath.Ext: the suffix beginning at the final dot of the last element
Ext(path) ==
    LET b == Base(path)
        i == LastOf(".", b, Len(b))
    IN  IF i = 0 THEN <<>> ELSE SubSeq(b, i, Len(b))

\* regexp "^[^.].*[.][[:alnum:]]+" matched anywhere (MatchString), src/ju.go:390
RegexMatch(name) ==
    /\ Len(name) >= 3
    /\ name[1] # "."
    /\ \E i \in 2..(Len(name) - 1) : name[i] = "." /\ IsAlnum(name[i + 1])

\* src/ju.go:394-400: ".gz" and the registered extensions, a dot put in front
Allowed(ext) ==
    { <<".", "gz">> } \cup
    { IF ext[i] # <<>> /\ ext[i][1] = "." THEN ext[i] ELSE <<".">> \o ext[i] : i \in 1..Len(ext) }

\* matchExt, src/ju.go:416-425
matchExt(ext, allowed) == IF Cardinality(allowed) = 1 THEN TRUE ELSE ext \in allowed

\* What FileStreamer returns: the reader ("nil", "multi" with its files, an
\* *os.File or a *GZIPReader), the error, and the handles left open that the
\* returned reader does not own.
Resolved(reader, files, err, leaked) ==
    [reader |-> reader, files |-> files, err |-> err, leaked |-> leaked]

\* streamDir, src/ju.go:427-441.  filepath.Walk calls the function for the
\* root and, when the directory can be read, for every entry in lexical order
\* (symbolic links are not followed but are visited); its errors are dropped.
streamDir(in, allowed) ==
    LET visits == <<in.path>> \o
                  (IF in.openable
                   THEN [i \in 1..Len(in.entries) |-> in.path \o <<"/">> \o in.entries[i].name]
                   ELSE <<>>)
        Keep(fn) == RegexMatch(Base(fn)) /\ matchExt(Ext(fn), allowed)
    IN  Resolved("multi", SelectSeq(visits, Keep), "nil", 0)

\* bufio.ScanLines: a line ends at LF, one CR before it is dropped; what
\* follows the last LF is a line when it is not empty.
DropCR(line) ==
    IF line # <<>> /\ line[Len(line)] = "CR" THEN SubSeq(line, 1, Len(line) - 1) ELSE line

RECURSIVE FirstOf(_, _, _)
FirstOf(ch, text, i) ==
    IF i > Len(text) THEN 0 ELSE IF text[i] = ch THEN i ELSE FirstOf(ch, text, i + 1)

RECURSIVE ScanLines(_)
ScanLines(text) ==
    LET i == FirstOf("LF", text, 1)
    IN  IF text = <<>> THEN <<>>
        ELSE IF i = 0 THEN <<DropCR(text)>>
        ELSE <<DropCR(SubSeq(text, 1, i - 1))>> \o ScanLines(SubSeq(text, i + 1, Len(text)))

\* A faulty variant of streamList: a line whose extension is neither ".json"
\* nor ".gz" makes the resolution fail.
streamListChecked(in) ==
    LET lines == ScanLines(in.text)
    IN  IF ~in.openable THEN Resolved("nil", <<>>, "nil", 0)
        ELSE IF \E i \in 1..Len(lines) : Ext(lines[i]) \notin {<<".", "json">>, <<".", "gz">>}
        THEN Resolved("nil", <<>>, "EEXT", 0)
        ELSE Resolved("multi", lines, "nil", 0)

\* streamList, src/ju.go:531-548
streamList(in) ==
    IF ~in.openable THEN Resolved("nil", <<>>, "nil", 0)
    ELSE Resolved("multi", ScanLines(in.text), "nil", 0)

\* streamFile, src/ju.go:516-529
streamFile(in) ==
    IF ~in.openable THEN Resolved("nil", <<>>, "EOPEN", 0)
    ELSE IF Ext(in.path) = <<".", "gz">>
    THEN IF in.hdr # "ok"
         THEN Resolved("nil", <<>>, "EGZ", 1)
         ELSE Resolved("gzip", <<in.path>>, "nil", 0)
    ELSE Resolved("file", <<in.path>>, "nil", 0)

\* A faulty variant of FileStreamer: the ".list" extension is looked at
\* before the kind of the path.
FileStreamerListFirst(in) ==
    IF in.stat = "missing" THEN Resolved("nil", <<>>, "ENOENT", 0)
    ELSE IF Ext(in.path) = <<".", "list">> THEN streamList(in)
    ELSE IF in.stat = "dir" THEN streamDir(in, Allowed(in.ext))
    ELSE streamFile(in)

\* FileStreamer, src/ju.go:389-414
FileStreamer(in) ==
    IF in.stat = "missing" THEN Resolved("nil", <<>>, "ENOENT", 0)
    ELSE IF in.stat = "dir" THEN streamDir(in, Allowed(in.ext))
    ELSE IF Ext(in.path) = <<".", "list">> THEN streamList(in)
    ELSE streamFile(in)

\* The inputs of the resolution: a path, what os.Stat says of it, whether it
\* can be opened, and what it holds.
Input(path, stat, openable, hdr, text, entries, ext) ==
    [path |-> path, stat |-> stat, openable |-> openable, hdr |-> hdr, text |-> text,
     entries |-> entries, ext |-> ext]

\* The paths a manifest may name, and the manifest written from a list of
\* paths, one path and a newline per entry (src/ju_test.go:159).
ManifestPaths ==
    { <<"f">>, <<"f", ".", "json">>, <<"f", ".", "json", ".", "gz">>, <<"f", ".", "x1">>,
      <<"n", ".", "list">> }

PathLists == UNION { [1..n -> ManifestPaths] : n \in 0..MaxLines }

RECURSIVE ManifestOf(_)
ManifestOf(paths) ==
    IF paths = <<>> THEN <<>> ELSE Head(paths) \o <<"LF">> \o ManifestOf(Tail(paths))

Texts ==
    UNION { [1..n -> {"a", "b", "LF", "CR"}] : n \in 0..MaxText }
    \cup { ManifestOf(l) : l \in PathLists }

\* The entries a directory may hold, in lexical order.
DirCatalogue ==
    << [name |-> <<".", "h", ".", "x1">>, kind |-> "file"],
       [name |-> <<"a">>, kind |-> "file"],
       [name |-> <<"a", ".", "x1">>, kind |-> "file"],
       [name |-> <<"b", ".", "x2">>, kind |-> "file"],
       [name |-> <<"c", ".", "gz">>, kind |-> "file"],
       [name |-> <<"l", ".", "x1">>, kind |-> "symlink"] >>

InDir(S) == LET In(e) == \E i \in S : DirCatalogue[i] = e IN SelectSeq(DirCatalogue, In)

ExtLists == { <<>>, << <<"x1">> >>, << <<".", "x1">> >>, << <<"x3">> >>, << <<"gz">> >> }

FilePaths == { <<"a">>, <<"a", ".", "json">>, <<"a", ".", "gz">>, <<"m", ".", "list">> }

DirPaths == { <<"d">>, <<"d", ".", "list">> }

ResolveInputs ==
    { Input(p, "missing", FALSE, "ok", <<>>, <<>>, e) : p \in FilePaths \cup DirPaths, e \in ExtLists }
    \cup { Input(p, "dir", o, "ok", <<>>, InDir(S), e) :
             p \in DirPaths, o \in BOOLEAN, S \in SUBSET (1..Len(DirCatalogue)), e \in ExtLists }
    \cup { Input(<<"m", ".", "list">>, "file", o, "ok", t, <<>>, <<>>) : o \in BOOLEAN, t \in Texts }
    \cup { Input(p, "file", o, hd, <<>>, <<>>, e) :
             p \in FilePaths \ {<<"m", ".", "list">>}, o \in BOOLEAN, hd \in {"ok", "bad"},
             e \in ExtLists }

\* ------------------------------------------------------------------- Init
NoRet == [op |-> "none", p |-> 0, n |-> 0, err |-> "nil", panic |-> FALSE,
          data |-> <<>>, ev |-> NoEv]

NoJRet == [op |-> "none", err |-> "nil", rec |-> 0, after |-> FALSE]

NoResolve == [called |-> FALSE]

NoPipe == [run |-> FALSE]

InitReader(d) ==
    /\ disk = d
    /\ m = [files |-> [i \in 1..Len(d) |-> i], idx |-> 0, reader |-> NilReader]
    /\ h = [i \in 1..Len(d) |-> "unopened"]
    /\ rpos = 0
    /\ rerr = "nil"
    /\ gzlog = NoLog
    /\ ret = NoRet
    /\ jret = NoJRet
    /\ pre = [files |-> <<>>, idx |-> 0, reader |-> NilReader, h |-> << >>]
    /\ out = <<>>
    /\ dec = [buf |-> <<>>, err |-> "nil"]
    /\ pc = "idle"
    /\ recs = <<>>
    /\ hist = [faulted |-> FALSE, closed |-> FALSE, drained |-> {}, errored |-> FALSE]

Init ==
    /\ \E d \in FileLists : InitReader(d)
    /\ mode \in {"raw", "json"}
    /\ rs = NoResolve
    /\ pl = NoPipe

\* ---------------------------------------------------------------- actions
Alive == ~ret.panic /\ rs = NoResolve

\* The effect of one multi.Read(p) whose environment answers c.
DoRead(p, c) ==
    LET r == MultiRead(Bundle, c)
    IN  /\ m' = r.s.m
        /\ h' = r.s.h
        /\ rpos' = r.s.rpos
        /\ rerr' = r.s.rerr
        /\ gzlog' = r.s.gzlog
        /\ ret' = [op |-> "Read", p |-> p, n |-> r.n, err |-> r.err, panic |-> r.panic,
                   data |-> r.data, ev |-> r.ev]
        /\ pre' = [files |-> m.files, idx |-> m.idx, reader |-> m.reader, h |-> h]
        /\ out' = out \o SubSeq(r.data, 1, r.n)
        /\ hist' = [hist EXCEPT !.faulted = @ \/ r.ev.fault,
                                !.errored = @ \/ (~r.panic /\ r.err \notin {"nil", "EOF"}),
                                !.drained = IF r.ev.rde = "EOF" THEN @ \cup {r.ev.f} ELSE @]

\* The caller reads the stream itself with a buffer of p bytes.
Read ==
    /\ Alive
    /\ mode = "raw"
    /\ \E p \in 1..MaxBuf : \E c \in ReadChoices(Bundle, p) : DoRead(p, c)
    /\ UNCHANGED <<disk, mode, jret, rs, dec, pc, recs, pl>>

\* multi.Close, called once; also JSONStreamer.Close (src/ju.go:378-380).
Close ==
    /\ Alive
    /\ pc = "idle"
    /\ ~hist.closed
    /\ \E c \in CloseChoices(Bundle) :
          LET r == MultiClose(Bundle, c)
          IN  /\ m' = r.s.m
              /\ h' = r.s.h
              /\ gzlog' = r.s.gzlog
              /\ ret' = [op |-> "Close", p |-> 0, n |-> 0, err |-> r.err, panic |-> r.panic,
                         data |-> <<>>, ev |-> r.ev]
              /\ hist' = [hist EXCEPT !.faulted = @ \/ r.ev.fault, !.closed = TRUE]
    /\ UNCHANGED <<disk, mode, rpos, rerr, jret, rs, pre, out, dec, pc, recs, pl>>

\* JSONStreamer.Next up to Decode's first refill: a kept error is returned
\* again, a value already in the buffer is returned, otherwise Decode reads.
Next_ ==
    /\ Alive
    /\ mode = "json"
    /\ pc = "idle"
    /\ LET sc == Scan(dec.buf)
           after == recs = AllRecs(disk, Len(disk))
       IN  IF dec.err # "nil"
           THEN /\ jret' = [op |-> "Next", err |-> NextErr(dec.err), rec |-> 0, after |-> after]
                /\ UNCHANGED <<dec, pc, recs>>
           ELSE IF sc.st = "value"
           THEN /\ jret' = [op |-> "Next", err |-> "nil", rec |-> sc.rec, after |-> after]
                /\ dec' = [dec EXCEPT !.buf = sc.rest]
                /\ recs' = Append(recs, sc.rec)
                /\ pc' = pc
           ELSE IF sc.st = "error"
           THEN /\ jret' = [op |-> "Next", err |-> "ESYNTAX", rec |-> 0, after |-> after]
                /\ dec' = [dec EXCEPT !.err = "ESYNTAX"]
                /\ UNCHANGED <<pc, recs>>
           ELSE /\ jret' = [op |-> "Next", err |-> "pending", rec |-> 0, after |-> after]
                /\ pc' = "refill"
                /\ UNCHANGED <<dec, recs>>
    /\ UNCHANGED <<disk, mode, m, h, rpos, rerr, gzlog, ret, rs, pre, out, hist, pl>>

\* One turn of Decode's loop: dec.refill reads from the stream, the buffer
\* is scanned again, and only without a complete value the read's error counts.
Refill ==
    /\ Alive
    /\ mode = "json"
    /\ pc = "refill"
    /\ \E c \in ReadChoices(Bundle, MaxBuf) : DoRead(MaxBuf, c)
    /\ LET buf == dec.buf \o SubSeq(ret'.data, 1, ret'.n)
           sc == Scan(buf)
       IN  IF ret'.panic
           THEN /\ jret' = [jret EXCEPT !.err = "panic"]
                /\ pc' = "idle"
                /\ UNCHANGED <<dec, recs>>
           ELSE IF sc.st = "value"
           THEN /\ jret' = [jret EXCEPT !.err = "nil", !.rec = sc.rec]
                /\ dec' = [dec EXCEPT !.buf = sc.rest]
                /\ recs' = Append(recs, sc.rec)
                /\ pc' = "idle"
           ELSE IF sc.st = "error"
           THEN /\ jret' = [jret EXCEPT !.err = "ESYNTAX"]
                /\ dec' = [buf |-> buf, err |-> "ESYNTAX"]
                /\ pc' = "idle"
                /\ UNCHANGED recs
           ELSE IF ret'.err # "nil"
           THEN /\ jret' = [jret EXCEPT !.err = NextErr(ReadValueErr(ret'.err, buf))]
                /\ dec' = [buf |-> buf, err |-> ReadValueErr(ret'.err, buf)]
                /\ pc' = "idle"
                /\ UNCHANGED recs
           ELSE /\ dec' = [dec EXCEPT !.buf = buf]
                /\ UNCHANGED <<jret, pc, recs>>
    /\ UNCHANGED <<disk, mode, rs, pl>>

Next == Read \/ Close \/ Next_ \/ Refill

Spec == Init /\ [][Next]_vars

\* The same program with a caller that keeps calling Read.
SpecFair == Init /\ [][Next]_vars /\ WF_vars(Read)

\* A call of FileStreamer on any input.
Resolve ==
    /\ ~rs.called
    /\ \E in \in ResolveInputs : rs' = [called |-> TRUE, in |-> in, res |-> FileStreamer(in)]
    /\ UNCHANGED <<disk, mode, m, h, rpos, rerr, gzlog, ret, jret, pre, out, dec, pc, recs, hist, pl>>

InitResolve == InitReader(<<>>) /\ mode = "raw" /\ rs = NoResolve /\ pl = NoPipe

SpecResolve == InitResolve /\ [][Resolve]_vars


\* ---------------------------------------------------- writing and reading
\* A file of the round trip: whether it exists and the bytes it holds.
NoFile == [exists |-> FALSE, bytes |-> <<>>]

\* A faulty variant of WriteJSONFile: the file is created and closed but the
\* value is never encoded into it.
WriteJSONFileEmpty(o, fault, k) ==
    IF fault \in {"mkdir", "create"} THEN [err |-> "EIO", file |-> NoFile]
    ELSE [err |-> "nil", file |-> [exists |-> TRUE, bytes |-> <<>>]]

\* WriteJSONFile, src/ju.go:329-345.  fault names the call that fails (none
\* when "ok"); a failed write leaves the first k bytes of the encoding.
WriteJSONFile(o, fault, k) ==
    IF fault \in {"mkdir", "create"} THEN [err |-> "EIO", file |-> NoFile]
    ELSE IF fault = "write"
    THEN [err |-> "EIO", file |-> [exists |-> TRUE, bytes |-> SubSeq(WriteJSON(o), 1, k)]]
    ELSE [err |-> IF fault = "close" THEN "EIO" ELSE "nil",
          file |-> [exists |-> TRUE, bytes |-> WriteJSON(o)]]

\* ReadJSON, src/ju.go:293-300: one Decode on a fresh decoder; io.EOF is
\* swallowed and leaves the object as it was (0).
ReadJSON(bytes, rde) ==
    LET sc == Scan(bytes)
        e  == IF sc.st = "value" THEN "nil"
              ELSE IF sc.st = "error" THEN "ESYNTAX"
              ELSE IF rde # "nil" THEN rde
              ELSE ReadValueErr("EOF", bytes)
    IN  [err |-> IF e = "EOF" THEN "nil" ELSE e,
         val |-> IF sc.st = "value" THEN sc.rec ELSE 0]

\* ReadJSONFile, src/ju.go:303-315
ReadJSONFile(file, fault) ==
    IF ~file.exists THEN [err |-> "ENOENT", val |-> 0]
    ELSE IF fault = "open" THEN [err |-> "EIO", val |-> 0]
    ELSE LET r == ReadJSON(file.bytes, IF fault = "read" THEN "EIO" ELSE "nil")
         IN  IF r.err # "nil" THEN r
             ELSE [r EXCEPT !.err = IF fault = "close" THEN "EIO" ELSE "nil"]

\* The values written one after the other to one writer (src/ju_test.go:54-66).
RECURSIVE WriteAll(_)
WriteAll(vs) == IF vs = <<>> THEN <<>> ELSE WriteJSON(Head(vs)) \o WriteAll(Tail(vs))

\* JSONStreamer.Next called until it fails (src/ju_test.go:436-449), on a
\* stream that delivers bytes and then EOF.
RECURSIVE NextAll(_)
NextAll(bytes) ==
    LET sc == Scan(bytes)
    IN  IF sc.st = "value"
        THEN LET r == NextAll(sc.rest) IN [r EXCEPT !.vals = <<sc.rec>> \o r.vals]
        ELSE [vals |-> <<>>,
              err |-> IF sc.st = "error" THEN "ESYNTAX"
                      ELSE NextErr(ReadValueErr("EOF", bytes))]

Values == 1..MaxVal

ValueLists == UNION { [1..n -> Values] : n \in 1..MaxSeq }

\* The round trip of the tests: the first value is written with WriteJSONFile
\* and read with ReadJSONFile (src/ju_test.go:459-482); all the values are
\* written with WriteJSON to a plain or a gzip file, which FileStreamer
\* resolves and a JSONStreamer reads back (src/ju_test.go:39-126).
RoundTrip ==
    /\ ~rs.called
    /\ \E vs \in ValueLists, gz \in BOOLEAN,
          wf \in {"ok", "mkdir", "create", "write", "close"}, k \in 0..2,
          rf \in {"ok", "open", "read", "close"} :
          LET w    == WriteJSONFile(vs[1], wf, k)
              path == IF gz THEN <<"a", ".", "json", ".", "gz">> ELSE <<"a", ".", "json">>
          IN  rs' = [called |-> TRUE, vs |-> vs, w |-> w, r |-> ReadJSONFile(w.file, rf),
                     res |-> FileStreamer(Input(path, "file", TRUE, "ok", <<>>, <<>>, <<>>)),
                     s |-> NextAll(WriteAll(vs))]
    /\ UNCHANGED <<disk, mode, m, h, rpos, rerr, gzlog, ret, jret, pre, out, dec, pc, recs, hist, pl>>

SpecJSON == InitResolve /\ [][RoundTrip]_vars

\* ------------------------------------------------------ concurrent pipeline
\* A run over k files of mm records each with nw workers: the path queue is
\* filled before the workers start, every worker is idle, the output channel
\* is empty and open, nothing has been received.
PipelineRun(k, mm, nw) ==
    [run |-> TRUE, K |-> k, M |-> mm,
     queue |-> [i \in 1..k |-> i],
     w |-> [i \in 1..nw |-> [st |-> "idle", f |-> 0, pos |-> 0]],
     ch |-> <<>>, closed |-> FALSE, got |-> <<>>]

\* A faulty variant of Joined: the channel may close once the path queue is
\* empty.
QueueDrained(p) == p.queue = <<>>

\* The completion barrier: every worker has terminated.
Joined(p) == \A i \in DOMAIN p.w : p.w[i].st = "done"

\* An idle worker claims the path at the head of the queue and opens it.
Claim(i) ==
    /\ pl.w[i].st = "idle" /\ pl.queue # <<>>
    /\ pl' = [pl EXCEPT !.queue = Tail(@),
                         !.w[i] = [st |-> "busy", f |-> Head(pl.queue), pos |-> 0]]

\* A worker decodes the next record of its file and publishes it; a full
\* channel blocks it.
Publish(i) ==
    /\ pl.w[i].st = "busy" /\ pl.w[i].pos < pl.M
    /\ Len(pl.ch) < ChanCap
    /\ pl' = [pl EXCEPT !.ch = Append(@, RecId(pl.w[i].f, pl.w[i].pos + 1)),
                         !.w[i].pos = @ + 1]

\* A worker reaches the end of its file and closes it.
FinishFile(i) ==
    /\ pl.w[i].st = "busy" /\ pl.w[i].pos = pl.M
    /\ pl' = [pl EXCEPT !.w[i] = [st |-> "idle", f |-> 0, pos |-> 0]]

\* A worker that finds the queue empty terminates.
Exit(i) ==
    /\ pl.w[i].st = "idle" /\ pl.queue = <<>>
    /\ pl' = [pl EXCEPT !.w[i].st = "done"]

\* The orchestrator closes the output channel after the join.
CloseChannel ==
    /\ ~pl.closed /\ Joined(pl)
    /\ pl' = [pl EXCEPT !.closed = TRUE]

\* The consumer receives the record at the head of the channel.
Receive ==
    /\ pl.ch # <<>>
    /\ pl' = [pl EXCEPT !.ch = Tail(@), !.got = Append(@, Head(pl.ch))]

NextPipe ==
    /\ \/ \E i \in DOMAIN pl.w : Claim(i)
       \/ \E i \in DOMAIN pl.w : Publish(i)
       \/ \E i \in DOMAIN pl.w : FinishFile(i)
       \/ \E i \in DOMAIN pl.w : Exit(i)
       \/ CloseChannel
       \/ Receive
    /\ UNCHANGED <<disk, mode, m, h, rpos, rerr, gzlog, ret, jret, rs, pre, out, dec, pc, recs, hist>>

InitPipe ==
    /\ InitReader(<<>>) /\ mode = "raw" /\ rs = NoResolve
    /\ \E k \in 1..MaxK, mm \in 0..MaxM, nw \in 1..MaxK : nw <= k /\ pl = PipelineRun(k, mm, nw)

SpecPipe == InitPipe /\ [][NextPipe]_vars

\* ----------------------------------------------------------------- claims
Expected == AllBytes(disk, Len(disk))

ExpectedRecs == AllRecs(disk, Len(disk))

\* Every member file holds valid records and nothing of the environment
\* failed, and the reader was not closed by its caller.
CleanRun == AllValid(disk) /\ ~hist.faulted /\ ~hist.closed

\* C1: over valid files, plain or gzip, with any buffer sizes and empty files
\* anywhere, what multi.Read and JSONStreamer.Next deliver is always a prefix of
\* the concatenation of the files in list order, and it is the whole
\* concatenation when end-of-stream is reported (or the run ends otherwise).
C1_Concatenation ==
    CleanRun =>
        /\ IsPrefix(out, Expected)
        /\ IsPrefix(recs, ExpectedRecs)
        /\ (ret.op = "Read" /\ (ret.err = "EOF" \/ ret.panic) => out = Expected)
        /\ (jret.op = "Next" /\ jret.err \in {"Done", "panic"} => recs = ExpectedRecs)
        /\ (Len(recs) > 0 => jret.rec = recs[Len(recs)] \/ jret.err # "nil")

C1_Witness ==
    /\ CleanRun
    /\ mode = "json"
    /\ Len(disk) = 2
    /\ disk[1].gz /\ ~disk[2].gz
    /\ jret.err = "Done"
    /\ recs = ExpectedRecs
    /\ Len(recs) = 2

\* C2: a Read that finds the reader after end-of-stream of a non-empty list
\* (no current reader, idx past the last file) returns (0, EOF), without a
\* panic and without opening a file.
C2_ReadAfterEOF ==
    (ret.op = "Read" /\ pre.reader.k = "nil" /\ Len(pre.files) > 0
        /\ pre.idx >= Len(pre.files))
    => (ret.n = 0 /\ ret.err = "EOF" /\ ~ret.panic /\ ~ret.ev.opened)

\* C3: Read returns EOF only as the end of the whole sequence: a member's EOF
\* with more files to come is closed over and answered with nil, and when Read
\* returns EOF every file of the list has been opened and drained.
C3_EOFOnlyAtEnd ==
    ret.op = "Read" /\ ~ListEmpty(pre.files) =>
        /\ (ret.ev.rde = "EOF" /\ ret.ev.cle = "nil" /\ ret.ev.f < Len(pre.files)
              => ret.err = "nil" /\ m.reader = NilReader /\ h[ret.ev.f] = "closed")
        /\ (ret.err = "EOF"
              => \A i \in 1..Len(pre.files) : h[i] = "closed" /\ i \in hist.drained)

\* C4: after Close, whatever state it was called in, a Read returns (0, EOF),
\* does not panic and opens no file.
C4_ReadAfterClose ==
    (ret.op = "Read" /\ hist.closed)
    => (ret.n = 0 /\ ret.err = "EOF" /\ ~ret.panic /\ ~ret.ev.opened /\ h = pre.h)

C4_Witness ==
    /\ ret.op = "Read"
    /\ hist.closed
    /\ pre.reader.k = "gz"
    /\ pre.h[pre.reader.f] = "closed"
    /\ Len(disk) = 2
    /\ out # <<>>

\* C5: over valid records, a Next called once the last record has been
\* returned returns Done, and so does every later one.
C5_DoneForever ==
    (CleanRun /\ jret.op = "Next" /\ jret.after /\ pc = "idle") => jret.err = "Done"

\* C6: when the member's read fails with an error other than EOF, Read closes
\* the member and returns that read error, whatever the close answers.
C6_ReadErrorKept ==
    (ret.op = "Read" /\ ret.ev.rde \notin {"none", "nil", "EOF"})
    => (ret.err = ret.ev.rde /\ ret.ev.cle # "none")

\* C7: when Read returns an error, and after Close returns, every file handle
\* the reader opened has been closed.
C7_NoLeak ==
    (\/ ret.op = "Read" /\ ~ret.panic /\ ret.err \notin {"nil", "EOF"}
     \/ ret.op = "Close" /\ ~ret.panic)
    => \A i \in 1..Len(disk) : h[i] # "open"

\* C8: GZIPReader.Close closes the decompressor first and the raw stream
\* second, attempts both, and returns the first error of the two.
C8_CloseOrder ==
    gzlog.log # <<>> =>
        /\ gzlog.log = <<"gzipReader", "inReader">>
        /\ gzlog.err = (IF gzlog.egz # "nil" THEN gzlog.egz ELSE gzlog.ein)


\* C9: the resolution fails with an error whenever the path does not exist or
\* cannot be opened, in every mode, and never returns a nil reader with a nil
\* error.
C9_ResolveFails ==
    rs.called =>
        /\ (rs.in.stat = "missing" \/ ~rs.in.openable => rs.res.err # "nil")
        /\ ~(rs.res.reader = "nil" /\ rs.res.err = "nil")

\* C10: the files resolved from a manifest are its non-empty lines: a blank
\* line never becomes an entry of the list.
C10_BlankLinesIgnored ==
    (rs.called /\ rs.in.stat = "file" /\ Ext(rs.in.path) = <<".", "list">>
        /\ rs.res.reader = "multi")
    => LET NonEmpty(line) == line # <<>>
       IN  /\ \A i \in 1..Len(rs.res.files) : rs.res.files[i] # <<>>
           /\ rs.res.files = SelectSeq(ScanLines(rs.in.text), NonEmpty)

\* C11: a manifest resolves to the paths written in it, unchanged and in the
\* order written, whatever their extensions; a path ending in ".list" stays
\* one entry of the list.
C11_ManifestVerbatim ==
    (rs.called /\ rs.in.stat = "file" /\ Ext(rs.in.path) = <<".", "list">> /\ rs.in.openable)
    => \A l \in PathLists :
           rs.in.text = ManifestOf(l)
           => (rs.res.reader = "multi" /\ rs.res.err = "nil" /\ rs.res.files = l)

C11_Witness ==
    /\ rs.called /\ rs.in.stat = "file" /\ rs.in.openable
    /\ rs.in.text = ManifestOf(<< <<"f", ".", "x1">>, <<"n", ".", "list">> >>)
    /\ rs.res.files = << <<"f", ".", "x1">>, <<"n", ".", "list">> >>

\* An extension as the caller may register it, with its leading dot.
WithDot(e) == IF e # <<>> /\ e[1] = "." THEN e ELSE <<".">> \o e

\* C12: with a non-empty list of registered extensions, every path of a
\* resolved directory has a registered extension or ".gz"; a directory that
\* holds a.x1 and b.x2 resolves to [a.x1] when x1 is registered and to the
\* empty list when nothing registered matches.
C12_OnlyRegistered ==
    (rs.called /\ rs.in.stat = "dir" /\ rs.in.ext # <<>>)
    => /\ \A i \in 1..Len(rs.res.files) :
              \/ Ext(rs.res.files[i]) = <<".", "gz">>
              \/ \E j \in 1..Len(rs.in.ext) : Ext(rs.res.files[i]) = WithDot(rs.in.ext[j])
       /\ (rs.in.path = <<"d">> /\ rs.in.openable /\ rs.in.entries = InDir({3, 4}))
          => /\ WithDot(rs.in.ext[1]) = <<".", "x1">>
                => rs.res.files = << <<"d", "/", "a", ".", "x1">> >>
             /\ WithDot(rs.in.ext[1]) = <<".", "x3">> => rs.res.files = <<>>

\* The entries of the directory that the resolved list names.
Listed(r) ==
    { e \in { r.in.entries[k] : k \in 1..Len(r.in.entries) } :
        \E i \in 1..Len(r.res.files) : r.res.files[i] = r.in.path \o <<"/">> \o e.name }

\* C13: no entry whose name begins with a dot and no symbolic link is in the
\* list resolved from a directory, whatever the registered extensions.
C13_NoDotNoSymlink ==
    (rs.called /\ rs.in.stat = "dir")
    => \A e \in Listed(rs) : e.name[1] # "." /\ e.kind # "symlink"

\* C14: with no extension registered, every file of a readable directory
\* whose name does not begin with a dot is in the resolved list, a file with
\* no extension included.
C14_AllNonDotEntries ==
    (rs.called /\ rs.in.stat = "dir" /\ rs.in.openable /\ rs.in.ext = <<>>)
    => \A k \in 1..Len(rs.in.entries) :
           (rs.in.entries[k].kind = "file" /\ rs.in.entries[k].name[1] # ".")
           => rs.in.entries[k] \in Listed(rs)

\* C15: a directory is resolved in directory mode whatever its name (the
\* list names the directory's entries); any other path with the extension
\* ".list" is resolved in manifest mode (the list is read from its text, the
\* path itself is not a member); every other existing path, with or without
\* an extension, is the sole file of the result.
C15_Classification ==
    (rs.called /\ rs.in.stat # "missing" /\ rs.in.openable)
    => /\ rs.in.stat = "dir"
          => /\ rs.res.reader = "multi" /\ rs.res.err = "nil"
             /\ \A i \in 1..Len(rs.res.files) :
                    \/ rs.res.files[i] = rs.in.path
                    \/ \E k \in 1..Len(rs.in.entries) :
                          rs.res.files[i] = rs.in.path \o <<"/">> \o rs.in.entries[k].name
             /\ \A k \in 1..Len(rs.in.entries) :
                    rs.in.entries[k].name = <<"c", ".", "gz">> => rs.in.entries[k] \in Listed(rs)
       /\ (rs.in.stat = "file" /\ Ext(rs.in.path) = <<".", "list">>)
          => /\ rs.res.reader = "multi" /\ rs.res.err = "nil"
             /\ Len(rs.res.files) = Len(ScanLines(rs.in.text))
             /\ \A i \in 1..Len(rs.res.files) : rs.res.files[i] # rs.in.path
       /\ (rs.in.stat = "file" /\ Ext(rs.in.path) # <<".", "list">>
               /\ (Ext(rs.in.path) = <<".", "gz">> => rs.in.hdr = "ok"))
          => /\ rs.res.reader = (IF Ext(rs.in.path) = <<".", "gz">> THEN "gzip" ELSE "file")
             /\ rs.res.err = "nil"
             /\ rs.res.files = <<rs.in.path>>

C15_Witness ==
    /\ rs.called /\ rs.in.stat = "dir" /\ rs.in.openable
    /\ rs.in.path = <<"d", ".", "list">>
    /\ rs.in.entries = InDir({5})
    /\ rs.res.files = << <<"d", ".", "list", "/", "c", ".", "gz">> >>

OfFile(seq, f) == LET Is(r) == r \div 10 = f IN SelectSeq(seq, Is)

\* How many records of file f have been published.
Published(f) ==
    IF \E i \in 1..Len(pl.queue) : pl.queue[i] = f THEN 0
    ELSE IF \E i \in DOMAIN pl.w : pl.w[i].st = "busy" /\ pl.w[i].f = f
    THEN (CHOOSE n \in 0..pl.M : \E i \in DOMAIN pl.w : pl.w[i].f = f /\ pl.w[i].pos = n)
    ELSE pl.M

C18_ReaderInvariant ==
    /\ m.reader # NilReader => (m.reader.k \in {"file", "gz"} /\ h[m.reader.f] = "open")
    /\ (m.reader = NilReader /\ m.idx < Len(m.files))
       => /\ h[m.files[m.idx + 1]] = "unopened"
          /\ \A j \in 1..m.idx : h[m.files[j]] = "closed"

\* The list positions whose file handle is open.
OpenHandles == { f \in 1..Len(h) : h[f] = "open" }

\* C19: no file is open before the first Read; a file is opened only by a
\* Read, only the file at position idx, only when it was never opened before
\* and every file before it has been closed; a closed file is never opened
\* again; at most one member file is open at any time.
C19_LazyInOrder ==
    /\ [](Cardinality(OpenHandles) <= 1)
    /\ [](ret.op = "none" => OpenHandles = {})
    /\ [][\A f \in 1..Len(h) :
            /\ (h[f] # "open" /\ h'[f] = "open")
               => /\ h[f] = "unopened"
                  /\ ret'.op = "Read" /\ ret'.ev.opened
                  /\ m.reader = NilReader /\ m.idx + 1 = f
                  /\ \A j \in 1..(f - 1) : h[j] = "closed"
            /\ h[f] # "unopened" => h'[f] # "unopened"
            /\ h[f] = "closed" => h'[f] = "closed"]_vars

C19_Witness ==
    /\ Len(h) = 2 /\ h[1] = "closed" /\ h[2] = "open"
    /\ ret.op = "Read" /\ ret.ev.opened /\ pre.idx = 1

\* C20: on a reader made with an empty file list every Read returns (0, EOF)
\* and opens nothing, no byte is ever handed out, and every Next of the
\* streamer on it answers Done, so no record is returned.
C20_EmptyList ==
    Len(disk) = 0 =>
        /\ ret.op = "Read"
           => (ret.n = 0 /\ ret.err = "EOF" /\ ~ret.panic /\ ~ret.ev.opened)
        /\ (jret.op = "Next" /\ pc = "idle") => jret.err = "Done"
        /\ out = <<>> /\ recs = <<>>

C20_Witness ==
    /\ Len(disk) = 0 /\ mode = "json"
    /\ ret.op = "Read" /\ ret.err = "EOF" /\ jret.op = "Next" /\ jret.err = "Done"

\* The reader a Read would use is set but is not a reader of an open file:
\* it has been closed, or its construction failed.
StaleReader ==
    /\ m.files # <<>>
    /\ \/ m.reader.k = "nilgz"
       \/ m.reader.k \in {"file", "gz"} /\ h[m.reader.f] = "closed"

\* C21: once a Read has returned an error other than EOF, every later Read
\* returns an error or EOF without a panic, and does not use a member reader
\* that is closed or was never constructed.
C21_AfterError ==
    [][(hist.errored /\ ret'.op = "Read" /\ ret' # ret)
       => (~ret'.panic /\ ret'.err # "nil" /\ ~StaleReader)]_vars

\* C22: the count every Read returns is the number of bytes the member reader
\* placed in the caller's buffer during that call, whatever the return path.
C22_CountReported ==
    (ret.op = "Read" /\ ~ret.panic) => ret.n = Len(ret.data)

\* The last Read could not open its file, could not construct its gzip
\* reader, or its member reader answered an error other than EOF.
OpenOrReadFailed ==
    /\ ret.op = "Read"
    /\ \/ ret.err = "EOPEN"
       \/ ret.ev.opened /\ ret.ev.fault /\ ret.ev.rde = "none"
       \/ ret.ev.rde \notin {"none", "nil", "EOF"}

\* C23: when the caller only calls Read, every file opens and every member
\* reader answers data and then EOF, a Read eventually returns EOF; and over
\* every Read idx does not decrease and does not exceed the length of the
\* file list.
C23_EventuallyEOF ==
    /\ ((mode = "raw" /\ AllValid(disk)) /\ [](~hist.closed /\ ~OpenOrReadFailed))
       => <>(ret.op = "Read" /\ ret.err = "EOF")
    /\ [][ret'.op = "Read" => (m'.idx >= m.idx /\ m'.idx <= Len(m'.files))]_vars

====
